---- MODULE Spec2Model ----
(***************************************************************************)
(* Model of meta/collection.go: the Collection value, its comparator and   *)
(* derived quantities, and Set.Collections, the temporal join that builds  *)
(* the Collections of a site from the metadata registries.                 *)
(*                                                                         *)
(* Representation                                                          *)
(*   string (ordered or case-mapped)  sequence of bytes, <<65,66>> = "AB"  *)
(*   string (only compared for ==)    TLA+ string                          *)
(*   float64                          [cls, v]: a finite integral value,   *)
(*                                    NaN, +Inf or -Inf                    *)
(*   time.Time                        integer instant                      *)
(*   *Polarity                        [nil, Primary, Reversed]             *)
(***************************************************************************)
EXTENDS Integers, Sequences, FiniteSets, TLC

VARIABLES
    reg,          \* the Set: one sequence per registry accessor, in accessor order
    site,         \* the Site argument of Collections
    sortTies,     \* how this build's sort.Slice leaves equal elements
    trace,        \* history: the records joined for each append, in append order
    collections,  \* the slice Collections returns
    reordered,    \* the slice returned when the accessors answer in the opposite order
    c,            \* receiver of Less / Subsource / Azimuth
    collection,   \* argument of Less
    polarity,     \* argument of Azimuth
    azimuth,      \* local variable of Azimuth
    ret,          \* returned value of the method called
    pc            \* position of the call in progress

vars == <<reg, site, sortTies, trace, collections, reordered,
          c, collection, polarity, azimuth, ret, pc>>

(***************************************************************************)
(* Bounds of the model.                                                    *)
(***************************************************************************)
MaxTime == 2
MaxNumber == 2
MaxAzimuth == 370
MaxSubsourceLen == 1

(***************************************************************************)
(* float64                                                                 *)
(***************************************************************************)
Fin(n) == [cls |-> "fin", v |-> n]
NaN == [cls |-> "nan", v |-> 0]
PosInf == [cls |-> "pinf", v |-> 0]
NegInf == [cls |-> "ninf", v |-> 0]

\* x < y
FLt(x, y) ==
    CASE x.cls = "nan" \/ y.cls = "nan" -> FALSE
      [] x.cls = "ninf" -> y.cls # "ninf"
      [] x.cls = "pinf" -> FALSE
      [] OTHER -> y.cls = "pinf" \/ (y.cls = "fin" /\ x.v < y.v)

\* x > y
FGt(x, y) == FLt(y, x)

\* x == y
FEq(x, y) == x.cls # "nan" /\ y.cls # "nan" /\ x = y

\* x != y
FNe(x, y) == ~FEq(x, y)

\* x + y
FAdd(x, y) ==
    CASE x.cls = "nan" \/ y.cls = "nan" -> NaN
      [] x.cls = "fin" /\ y.cls = "fin" -> Fin(x.v + y.v)
      [] x.cls = "fin" -> y
      [] y.cls = "fin" -> x
      [] x.cls = y.cls -> x
      [] OTHER -> NaN

\* math.Mod(x, y) for a finite y > 0: the result has the sign of x
FMod(x, y) ==
    CASE x.cls # "fin" -> NaN
      [] x.v >= 0 -> Fin(x.v % y)
      [] OTHER -> Fin(0 - ((0 - x.v) % y))

(***************************************************************************)
(* strings                                                                 *)
(***************************************************************************)
RECURSIVE StrLess(_, _)
\* s < t, Go's bytewise lexicographic order
StrLess(s, t) ==
    IF t = <<>> THEN FALSE
    ELSE IF s = <<>> THEN TRUE
    ELSE IF Head(s) < Head(t) THEN TRUE
    ELSE IF Head(s) > Head(t) THEN FALSE
    ELSE StrLess(Tail(s), Tail(t))

\* strings.ToUpper
ToUpper(s) == [i \in 1..Len(s) |-> IF s[i] >= 97 /\ s[i] <= 122 THEN s[i] - 32 ELSE s[i]]

\* strings.ToLower
ToLower(s) == [i \in 1..Len(s) |-> IF s[i] >= 65 /\ s[i] <= 90 THEN s[i] + 32 ELSE s[i]]

StrTrue == <<116, 114, 117, 101>>
StrYes == <<121, 101, 115>>
StrFalse == <<102, 97, 108, 115, 101>>
StrN == <<78>>
StrE == <<69>>
Str1 == <<49>>
Str2 == <<50>>

(***************************************************************************)
(* Span (meta/span.go is not part of the sources at hand: modelled from    *)
(* the specification, a closed interval of instants).                      *)
(***************************************************************************)
Max2(x, y) == IF x >= y THEN x ELSE y
Min2(x, y) == IF x <= y THEN x ELSE y

\* Span.Overlaps: the two spans share at least one instant
Overlaps(s, t) == s.Start <= t.End /\ t.Start <= s.End

RECURSIVE Extent(_, _)
\* Span.Extent: the intersection of s with every span of the sequence, and
\* whether it is non-empty
Extent(s, spans) ==
    IF spans = <<>> THEN [span |-> s, ok |-> s.Start <= s.End]
    ELSE LET clip == [Start |-> Max2(s.Start, Head(spans).Start),
                      End |-> Min2(s.End, Head(spans).End)]
         IN  IF clip.Start > clip.End
             THEN [span |-> [Start |-> 0, End |-> 0], ok |-> FALSE]
             ELSE Extent(clip, Tail(spans))

(***************************************************************************)
(* Collection.Less                                                         *)
(***************************************************************************)
\* Less without the Channel.Number cases
LessIgnoringChannel(a, b) ==
    CASE StrLess(a.InstalledSensor.Station, b.InstalledSensor.Station) -> TRUE
      [] StrLess(b.InstalledSensor.Station, a.InstalledSensor.Station) -> FALSE
      [] StrLess(a.InstalledSensor.Location, b.InstalledSensor.Location) -> TRUE
      [] StrLess(b.InstalledSensor.Location, a.InstalledSensor.Location) -> FALSE
      [] a.Component.Number < b.Component.Number -> TRUE
      [] a.Component.Number > b.Component.Number -> FALSE
      [] a.Span.Start < b.Span.Start -> TRUE
      [] a.Span.Start > b.Span.Start -> FALSE
      [] FGt(a.Stream.SamplingRate, b.Stream.SamplingRate) -> TRUE
      [] OTHER -> FALSE

Less(a, b) ==
    CASE StrLess(a.InstalledSensor.Station, b.InstalledSensor.Station) -> TRUE
      [] StrLess(b.InstalledSensor.Station, a.InstalledSensor.Station) -> FALSE
      [] StrLess(a.InstalledSensor.Location, b.InstalledSensor.Location) -> TRUE
      [] StrLess(b.InstalledSensor.Location, a.InstalledSensor.Location) -> FALSE
      [] a.Component.Number < b.Component.Number -> TRUE
      [] a.Component.Number > b.Component.Number -> FALSE
      [] a.Channel.Number < b.Channel.Number -> TRUE
      [] a.Channel.Number > b.Channel.Number -> FALSE
      [] a.Span.Start < b.Span.Start -> TRUE
      [] a.Span.Start > b.Span.Start -> FALSE
      [] FGt(a.Stream.SamplingRate, b.Stream.SamplingRate) -> TRUE
      [] OTHER -> FALSE

(***************************************************************************)
(* Collection.Subsource                                                    *)
(***************************************************************************)
\* Subsource comparing Component.Subsource as it is written
SubsourceCaseSensitive(col) ==
    IF ToLower(col.Stream.Axial) \in {StrTrue, StrYes}
    THEN CASE col.Component.Subsource = StrN -> Str1
           [] col.Component.Subsource = StrE -> Str2
           [] OTHER -> col.Component.Subsource
    ELSE col.Component.Subsource

Subsource(col) ==
    IF ToLower(col.Stream.Axial) \in {StrTrue, StrYes}
    THEN CASE ToUpper(col.Component.Subsource) = StrN -> Str1
           [] ToUpper(col.Component.Subsource) = StrE -> Str2
           [] OTHER -> col.Component.Subsource
    ELSE col.Component.Subsource

(***************************************************************************)
(* Collection.Azimuth, statement by statement                              *)
(***************************************************************************)
IsReversed(p) == ~p.nil /\ p.Primary /\ p.Reversed

\* lines 107-111: the combined azimuth before normalisation
CombinedAzimuth(col, p) ==
    LET sum == FAdd(col.InstalledSensor.Azimuth, col.Component.Azimuth)
    IN  IF IsReversed(p) THEN FAdd(sum, Fin(180)) ELSE sum

(***************************************************************************)
(* sort.Slice.  The sorted result is fixed by the comparator except for    *)
(* the order of elements that compare equal, which the library leaves to   *)
(* the build: "kept" leaves them as they were, "reversed" is the other     *)
(* outcome its documentation names (equal elements may be reversed from    *)
(* their original order).  The element at index i goes behind every        *)
(* element less than it and every equal element the build puts first.      *)
(***************************************************************************)
Reverse(s) == [i \in 1..Len(s) |-> s[Len(s) + 1 - i]]

SortSlice(s, less, ties) ==
    LET n == Len(s)
        first(j, i) == IF ties = "kept" THEN j < i ELSE j > i
        before(j, i) == less[j, i] \/ (~less[i, j] /\ first(j, i))
        place(i) == 1 + Cardinality({j \in 1..n : j # i /\ before(j, i)})
    IN  [p \in 1..n |-> s[CHOOSE i \in 1..n : place(i) = p]]

RECURSIVE Flatten(_)
\* the appends of consecutive loop iterations, in order
Flatten(ss) == IF ss = <<>> THEN <<>> ELSE Head(ss) \o Flatten(Tail(ss))

(***************************************************************************)
(* Set.Collections, path A: the installed recorders (lines 126-259)        *)
(***************************************************************************)
\* lines 155-173
RecorderGains(s, stream, component, span, ties) ==
    LET gains == SelectSeq(s.Gains, LAMBDA g :
                /\ g.Station = stream.Station
                /\ g.Location = stream.Location
                /\ g.Subsource = component.Subsource
                /\ Overlaps(span, g.Span))
    IN  SortSlice(gains,
                  [i, j \in DOMAIN gains |-> gains[i].Span.Start < gains[j].Span.Start],
                  ties)

\* lines 175-196
RecorderSensorCalibrations(s, recorder, component, span, ties) ==
    LET calibrations == SelectSeq(s.Calibrations, LAMBDA k :
                /\ k.Make = recorder.InstalledSensor.Make
                /\ k.Model = recorder.InstalledSensor.Model
                /\ k.Serial = recorder.InstalledSensor.Serial
                /\ k.Number = component.Number
                /\ Overlaps(span, k.Span))
    IN  SortSlice(calibrations,
                  [i, j \in DOMAIN calibrations |->
                      calibrations[i].Span.Start < calibrations[j].Span.Start],
                  ties)

\* lines 210-231
\* the same without the span test
RecorderCalibrationsAnySpan(s, recorder, channel, span, ties) ==
    LET calibrations == SelectSeq(s.Calibrations, LAMBDA k :
                /\ k.Make = recorder.InstalledSensor.Make
                /\ k.Model = recorder.DataloggerModel
                /\ k.Serial = recorder.InstalledSensor.Serial
                /\ k.Number = channel.Number)
    IN  SortSlice(calibrations,
                  [i, j \in DOMAIN calibrations |->
                      calibrations[i].Span.Start < calibrations[j].Span.Start],
                  ties)

RecorderDataloggerCalibrations(s, recorder, channel, span, ties) ==
    LET calibrations == SelectSeq(s.Calibrations, LAMBDA k :
                /\ k.Make = recorder.InstalledSensor.Make
                /\ k.Model = recorder.DataloggerModel
                /\ k.Serial = recorder.InstalledSensor.Serial
                /\ k.Number = channel.Number
                /\ Overlaps(span, k.Span))
    IN  SortSlice(calibrations,
                  [i, j \in DOMAIN calibrations |->
                      calibrations[i].Span.Start < calibrations[j].Span.Start],
                  ties)

\* lines 233-255: the Collection of a recorder
RecorderCollection(s, recorder, stream, component, channel, span, ties) ==
    [InstalledSensor |-> recorder.InstalledSensor,
     DeployedDatalogger |->
         [Place |-> "", Role |-> "",
          Make |-> recorder.InstalledSensor.Make,
          Model |-> recorder.DataloggerModel,
          Serial |-> recorder.InstalledSensor.Serial,
          Span |-> [Start |-> recorder.InstalledSensor.Span.Start,
                    End |-> recorder.InstalledSensor.Span.End]],
     Stream |-> stream,
     Gains |-> RecorderGains(s, stream, component, span, ties),
     SensorCalibrations |-> RecorderSensorCalibrations(s, recorder, component, span, ties),
     DataloggerCalibrations |-> RecorderDataloggerCalibrations(s, recorder, channel, span, ties),
     Channel |-> channel,
     Component |-> component,
     Span |-> span]

\* lines 199-208: the channels of a recorder's datalogger at the stream's rate
\* the same without the sampling rate test
RecorderChannelAnyRate(recorder, stream, channel) ==
    /\ recorder.InstalledSensor.Make = channel.Make
    /\ recorder.DataloggerModel = channel.Model

RecorderChannelMatches(recorder, stream, channel) ==
    /\ recorder.InstalledSensor.Make = channel.Make
    /\ recorder.DataloggerModel = channel.Model
    /\ FEq(stream.SamplingRate, channel.SamplingRate)

\* lines 198-256
RecorderChannels(s, ri, si, ci, span, ties) ==
    LET recorder == s.InstalledRecorders[ri]
        stream == s.Streams[si]
        component == s.Components[ci]
    IN  Flatten([chi \in 1..Len(s.Channels) |->
            IF ~RecorderChannelMatches(recorder, stream, s.Channels[chi]) THEN <<>>
            ELSE << [path |-> "A", recorder |-> ri, connection |-> 0, sensor |-> 0,
                     datalogger |-> 0, stream |-> si, component |-> ci, channel |-> chi,
                     col |-> RecorderCollection(s, recorder, stream, component,
                                                s.Channels[chi], span, ties)] >>])

\* lines 147-257
RecorderComponents(s, ri, si, span, ties) ==
    LET recorder == s.InstalledRecorders[ri]
    IN  Flatten([ci \in 1..Len(s.Components) |->
            IF recorder.InstalledSensor.Make # s.Components[ci].Make THEN <<>>
            ELSE IF recorder.InstalledSensor.Model # s.Components[ci].Model THEN <<>>
            ELSE RecorderChannels(s, ri, si, ci, span, ties)])

\* lines 134-258
RecorderStreams(s, st, ri, ties) ==
    LET recorder == s.InstalledRecorders[ri]
    IN  Flatten([si \in 1..Len(s.Streams) |->
            IF s.Streams[si].Station # st.Station THEN <<>>
            ELSE IF s.Streams[si].Location # st.Location THEN <<>>
            ELSE LET e == Extent(recorder.InstalledSensor.Span, <<s.Streams[si].Span>>)
                 IN  IF ~e.ok THEN <<>>
                     ELSE RecorderComponents(s, ri, si, e.span, ties)])

\* lines 126-259
Recorders(s, st, ties) ==
    Flatten([ri \in 1..Len(s.InstalledRecorders) |->
        IF s.InstalledRecorders[ri].InstalledSensor.Station # st.Station THEN <<>>
        ELSE IF s.InstalledRecorders[ri].InstalledSensor.Location # st.Location THEN <<>>
        ELSE RecorderStreams(s, st, ri, ties)])

(***************************************************************************)
(* Set.Collections, path B: the connections (lines 261-409)                *)
(***************************************************************************)
\* lines 311-329
ConnectionGains(s, stream, component, span, ties) ==
    LET gains == SelectSeq(s.Gains, LAMBDA g :
                /\ g.Station = stream.Station
                /\ g.Location = stream.Location
                /\ g.Subsource = component.Subsource
                /\ Overlaps(span, g.Span))
    IN  SortSlice(gains,
                  [i, j \in DOMAIN gains |-> gains[i].Span.Start < gains[j].Span.Start],
                  ties)

\* lines 331-352
SensorCalibrations(s, sensor, component, span, ties) ==
    LET calibrations == SelectSeq(s.Calibrations, LAMBDA k :
                /\ k.Make = sensor.Make
                /\ k.Model = sensor.Model
                /\ k.Serial = sensor.Serial
                /\ k.Number = component.Number
                /\ Overlaps(span, k.Span))
    IN  SortSlice(calibrations,
                  [i, j \in DOMAIN calibrations |->
                      calibrations[i].Span.Start < calibrations[j].Span.Start],
                  ties)

\* lines 369-390
DataloggerCalibrations(s, datalogger, channel, span, ties) ==
    LET calibrations == SelectSeq(s.Calibrations, LAMBDA k :
                /\ k.Make = datalogger.Make
                /\ k.Model = datalogger.Model
                /\ k.Serial = datalogger.Serial
                /\ k.Number = channel.Number
                /\ Overlaps(span, k.Span))
    IN  SortSlice(calibrations,
                  [i, j \in DOMAIN calibrations |->
                      calibrations[i].Span.Start < calibrations[j].Span.Start],
                  ties)

\* lines 392-402: the Collection of a connection
ConnectionCollection(s, sensor, datalogger, stream, component, channel, span, ties) ==
    [InstalledSensor |-> sensor,
     DeployedDatalogger |-> datalogger,
     Stream |-> stream,
     Gains |-> ConnectionGains(s, stream, component, span, ties),
     SensorCalibrations |-> SensorCalibrations(s, sensor, component, span, ties),
     DataloggerCalibrations |-> DataloggerCalibrations(s, datalogger, channel, span, ties),
     Channel |-> channel,
     Component |-> component,
     Span |-> span]

\* lines 355-367: the channels a connection routes the component to
\* the same with the offset test made strict
OffsetStrict(connection, datalogger, stream, component, channel) ==
    /\ datalogger.Make = channel.Make
    /\ datalogger.Model = channel.Model
    /\ ~(component.Number + connection.Number <= channel.Number)
    /\ FEq(stream.SamplingRate, channel.SamplingRate)

ConnectionChannelMatches(connection, datalogger, stream, component, channel) ==
    /\ datalogger.Make = channel.Make
    /\ datalogger.Model = channel.Model
    /\ ~(component.Number + connection.Number < channel.Number)
    /\ FEq(stream.SamplingRate, channel.SamplingRate)

\* lines 354-404
ConnectionChannels(s, ni, ei, di, si, ci, span, ties) ==
    LET connection == s.Connections[ni]
        sensor == s.InstalledSensors[ei]
        datalogger == s.DeployedDataloggers[di]
        stream == s.Streams[si]
        component == s.Components[ci]
    IN  Flatten([chi \in 1..Len(s.Channels) |->
            IF ~ConnectionChannelMatches(connection, datalogger, stream, component,
                                         s.Channels[chi]) THEN <<>>
            ELSE << [path |-> "B", recorder |-> 0, connection |-> ni, sensor |-> ei,
                     datalogger |-> di, stream |-> si, component |-> ci, channel |-> chi,
                     col |-> ConnectionCollection(s, sensor, datalogger, stream, component,
                                                  s.Channels[chi], span, ties)] >>])

\* lines 303-405
ConnectionComponents(s, ni, ei, di, si, span, ties) ==
    LET sensor == s.InstalledSensors[ei]
    IN  Flatten([ci \in 1..Len(s.Components) |->
            IF sensor.Make # s.Components[ci].Make THEN <<>>
            ELSE IF sensor.Model # s.Components[ci].Model THEN <<>>
            ELSE ConnectionChannels(s, ni, ei, di, si, ci, span, ties)])

\* lines 298-301: the span of the three installations narrowed to the stream
\* the same keeping the outer span
StreamSpanIgnored(outer, stream) == [span |-> outer, ok |-> Overlaps(outer, stream.Span)]

StreamSpan(outer, stream) == Extent(outer, <<stream.Span>>)

\* lines 290-406
ConnectionStreams(s, st, ni, ei, di, outer, ties) ==
    Flatten([si \in 1..Len(s.Streams) |->
        IF s.Streams[si].Station # st.Station THEN <<>>
        ELSE IF s.Streams[si].Location # st.Location THEN <<>>
        ELSE LET e == StreamSpan(outer, s.Streams[si])
             IN  IF ~e.ok THEN <<>>
                 ELSE ConnectionComponents(s, ni, ei, di, si, e.span, ties)])

\* lines 277-407
ConnectionDataloggers(s, st, ni, ei, ties) ==
    LET connection == s.Connections[ni]
        sensor == s.InstalledSensors[ei]
    IN  Flatten([di \in 1..Len(s.DeployedDataloggers) |->
            IF s.DeployedDataloggers[di].Place # connection.Place THEN <<>>
            ELSE IF s.DeployedDataloggers[di].Role # connection.Role THEN <<>>
            ELSE LET e == Extent(connection.Span,
                                 <<sensor.Span, s.DeployedDataloggers[di].Span>>)
                 IN  IF ~e.ok THEN <<>>
                     ELSE ConnectionStreams(s, st, ni, ei, di, e.span, ties)])

\* lines 269-408
ConnectionSensors(s, st, ni, ties) ==
    Flatten([ei \in 1..Len(s.InstalledSensors) |->
        IF s.InstalledSensors[ei].Station # st.Station THEN <<>>
        ELSE IF s.InstalledSensors[ei].Location # st.Location THEN <<>>
        ELSE ConnectionDataloggers(s, st, ni, ei, ties)])

\* lines 261-409
Connections(s, st, ties) ==
    Flatten([ni \in 1..Len(s.Connections) |->
        IF s.Connections[ni].Station # st.Station THEN <<>>
        ELSE IF s.Connections[ni].Location # st.Location THEN <<>>
        ELSE ConnectionSensors(s, st, ni, ties)])

\* lines 124-409: every append to collections, in order
Appended(s, st, ties) == Recorders(s, st, ties) \o Connections(s, st, ties)

Cols(entries) == [i \in 1..Len(entries) |-> entries[i].col]

\* lines 411-415, and the same without the sort
Unsorted(cols, ties) == cols

SortCollections(cols, ties) ==
    SortSlice(cols, [i, j \in DOMAIN cols |-> Less(cols[i], cols[j])], ties)

\* the same Set with every accessor answering in the opposite order
Reordered(s) == [a \in DOMAIN s |-> Reverse(s[a])]

(***************************************************************************)
(* The registries the join is run on.                                      *)
(***************************************************************************)
ABC == <<65, 66, 67>>
ABD == <<65, 66, 68>>
AB == <<65, 66>>
L01 == <<48, 49>>
L02 == <<48, 50>>
StrZ == <<90>>

Site0 == [Station |-> ABC, Location |-> L01]
SiteKeys == {Site0, [Station |-> ABD, Location |-> L01], [Station |-> ABC, Location |-> L02]}
Place0 == [Place |-> "P", Role |-> "R"]
PlaceRoles == {Place0, [Place |-> "Q", Role |-> "R"], [Place |-> "P", Role |-> "T"]}
Times == 0..MaxTime
Spans == {sp \in [Start : Times, End : Times] : sp.Start <= sp.End}
Whole == [Start |-> 0, End |-> MaxTime]

MkSensor(k, sp) ==
    [Station |-> k.Station, Location |-> k.Location, Make |-> "X", Model |-> "S",
     Serial |-> "1", Azimuth |-> Fin(0), Span |-> sp]
MkRecorder(k, sp) == [InstalledSensor |-> MkSensor(k, sp), DataloggerModel |-> "D"]
MkDatalogger(pr, sp) ==
    [Place |-> pr.Place, Role |-> pr.Role, Make |-> "X", Model |-> "D", Serial |-> "2",
     Span |-> sp]
MkConnection(k, pr, n, sp) ==
    [Station |-> k.Station, Location |-> k.Location, Place |-> pr.Place, Role |-> pr.Role,
     Number |-> n, Span |-> sp]
MkStream(k, band, rate, sp) ==
    [Station |-> k.Station, Location |-> k.Location, Band |-> band, Source |-> "H",
     Axial |-> StrFalse, SamplingRate |-> rate, Span |-> sp]
MkComponent(make, model, n, sub) ==
    [Make |-> make, Model |-> model, Number |-> n, Subsource |-> sub,
     Dip |-> Fin(0), Azimuth |-> Fin(90)]
MkChannel(make, model, n, rate) ==
    [Make |-> make, Model |-> model, Number |-> n, SamplingRate |-> rate]
MkGain(k, sub, sp, f) ==
    [Station |-> k.Station, Location |-> k.Location, Subsource |-> sub, Span |-> sp,
     Factor |-> f]
MkCalibration(key, sp, f) ==
    [Make |-> key[1], Model |-> key[2], Serial |-> key[3], Number |-> key[4], Span |-> sp,
     Factor |-> f]

SubsourceOf(n) == IF n = 1 THEN StrZ ELSE IF n = 2 THEN StrN ELSE StrE

\* the components of the sensor model, then one of another make and one of another model
Components0 ==
    [n \in 1..MaxNumber |-> MkComponent("X", "S", n, SubsourceOf(n))]
    \o << MkComponent("W", "S", 1, StrZ), MkComponent("X", "T", 1, StrZ) >>

\* the channels of the datalogger model, then channels that differ in make, model or rate
Channels0 ==
    [n \in 1..(2 * MaxNumber + 1) |-> MkChannel("X", "D", n, Fin(100))]
    \o << MkChannel("W", "D", 1, Fin(100)), MkChannel("X", "E", 1, Fin(100)),
          MkChannel("X", "D", 1, Fin(50)), MkChannel("X", "D", 1, NaN) >>

SensorKey == <<"X", "S", "1", 1>>
RecorderLoggerKey == <<"X", "D", "1", 1>>
LoggerKey == <<"X", "D", "2", 1>>
CalibrationKeys ==
    {SensorKey, RecorderLoggerKey, LoggerKey, <<"W", "S", "1", 1>>, <<"X", "U", "1", 1>>,
     <<"X", "S", "3", 1>>, <<"X", "S", "1", 2>>}

Calibrations0 ==
    << MkCalibration(SensorKey, Whole, 1), MkCalibration(RecorderLoggerKey, Whole, 2),
       MkCalibration(LoggerKey, Whole, 3) >>

Registry0 ==
    [InstalledRecorders |-> <<>>, InstalledSensors |-> <<>>, DeployedDataloggers |-> <<>>,
     Connections |-> <<>>, Streams |-> <<>>, Components |-> Components0,
     Channels |-> Channels0, Gains |-> << MkGain(Site0, StrZ, Whole, 1) >>,
     Calibrations |-> Calibrations0]

\* a recorder and a connected sensor and datalogger installed for the whole time
Registry1 ==
    [Registry0 EXCEPT
        !.InstalledRecorders = << MkRecorder(Site0, Whole) >>,
        !.InstalledSensors = << MkSensor(Site0, Whole) >>,
        !.DeployedDataloggers = << MkDatalogger(Place0, Whole) >>,
        !.Connections = << MkConnection(Site0, Place0, 0, Whole) >>,
        !.Streams = << MkStream(Site0, "H", Fin(100), Whole) >>,
        !.Components = << MkComponent("X", "S", 1, StrZ) >>,
        !.Channels = << MkChannel("X", "D", 1, Fin(100)) >>]

\* two recorders and two streams, the first of each of any site and span
RecorderRegistries ==
    {[Registry0 EXCEPT
        !.InstalledRecorders = << MkRecorder(k1, s1),
                                  MkRecorder([Station |-> ABD, Location |-> L01], Whole) >>,
        !.Streams = << MkStream(k2, "H", Fin(100), s2),
                       MkStream(Site0, "B", Fin(50), [Start |-> MaxTime, End |-> MaxTime]) >>] :
     k1 \in SiteKeys, s1 \in Spans, k2 \in SiteKeys, s2 \in Spans}

\* one connection, sensor, datalogger and stream, any key each
ConnectionKeyRegistries ==
    {[Registry0 EXCEPT
        !.Connections = << MkConnection(k1, Place0, n, Whole) >>,
        !.InstalledSensors = << MkSensor(k2, Whole) >>,
        !.DeployedDataloggers = << MkDatalogger(pr, Whole) >>,
        !.Streams = << MkStream(k3, "H", Fin(100), Whole),
                       MkStream(Site0, "B", NaN, Whole) >>] :
     k1 \in SiteKeys, n \in 0..MaxNumber, k2 \in SiteKeys, pr \in PlaceRoles,
     k3 \in SiteKeys}

\* one connection, sensor, datalogger and stream, any span each
ConnectionSpanRegistries ==
    {[Registry0 EXCEPT
        !.Connections = << MkConnection(Site0, Place0, 1, s1) >>,
        !.InstalledSensors = << MkSensor(Site0, s2) >>,
        !.DeployedDataloggers = << MkDatalogger(Place0, s3) >>,
        !.Streams = << MkStream(Site0, "H", Fin(100), s4) >>] :
     s1 \in Spans, s2 \in Spans, s3 \in Spans, s4 \in Spans}

GainVariants ==
    {MkGain(Site0, StrZ, sp, 1) : sp \in Spans}
    \cup {MkGain([Station |-> ABD, Location |-> L01], StrZ, Whole, 2),
          MkGain([Station |-> ABC, Location |-> L02], StrZ, Whole, 3),
          MkGain(Site0, StrN, Whole, 4)}

\* both paths, a stream of any span, and two gains of any key and span
GainRegistries ==
    {[Registry1 EXCEPT
        !.Streams = << MkStream(Site0, "H", Fin(100), s1) >>,
        !.Gains = << g1, [g2 EXCEPT !.Factor = 5] >>] :
     s1 \in Spans, g1 \in GainVariants, g2 \in GainVariants}

\* both paths, a stream of any span, and two calibrations of any key
CalibrationRegistries ==
    {[Registry1 EXCEPT
        !.Streams = << MkStream(Site0, "H", Fin(100), s1) >>,
        !.Calibrations = << MkCalibration(k1, s2, 1), MkCalibration(k2, s3, 2),
                            MkCalibration(RecorderLoggerKey, [Start |-> 0, End |-> 0], 3) >>] :
     s1 \in Spans, k1 \in CalibrationKeys, s2 \in Spans,
     k2 \in {SensorKey, RecorderLoggerKey, LoggerKey},
     s3 \in {[Start |-> 0, End |-> 1], [Start |-> 1, End |-> MaxTime]}}

StreamVariants ==
    {MkStream(Site0, band, rate, [Start |-> a, End |-> MaxTime]) :
     band \in {"H", "B"}, rate \in {Fin(100), Fin(50)}, a \in {0, 1}}

\* both paths and two streams: several Collections, some equal under Less
StreamRegistries ==
    {[Registry1 EXCEPT
        !.Streams = << s1, s2 >>,
        !.Components = << MkComponent("X", "S", 2, StrN), MkComponent("X", "S", 1, StrZ) >>,
        !.Channels = << MkChannel("X", "D", 2, Fin(100)), MkChannel("X", "D", 1, Fin(100)),
                        MkChannel("X", "D", 1, Fin(50)) >>] :
     s1 \in StreamVariants, s2 \in StreamVariants}

Registries ==
    RecorderRegistries \cup ConnectionKeyRegistries \cup ConnectionSpanRegistries
    \cup GainRegistries \cup CalibrationRegistries \cup StreamRegistries

NilPolarity == [nil |-> TRUE, Primary |-> FALSE, Reversed |-> FALSE]
None == <<>>

(***************************************************************************)
(* Set.Collections                                                         *)
(***************************************************************************)
Init ==
    /\ \/ reg \in Registries /\ site = Site0
       \/ /\ reg \in {r \in RecorderRegistries : r.InstalledRecorders[1].InstalledSensor.Span = Whole}
                      \cup ConnectionKeyRegistries
          /\ site \in SiteKeys \ {Site0}
    /\ sortTies \in {"kept", "reversed"}
    /\ trace = <<>>
    /\ collections = <<>>
    /\ reordered = <<>>
    /\ c = None
    /\ collection = None
    /\ polarity = NilPolarity
    /\ azimuth = NaN
    /\ ret = None
    /\ pc = "ready"

\* s.Collections(site)
Collections ==
    /\ pc = "ready"
    /\ trace' = Appended(reg, site, sortTies)
    /\ collections' = SortCollections(Cols(trace'), sortTies)
    /\ pc' = "sorted"
    /\ UNCHANGED <<reg, site, sortTies, reordered, c, collection, polarity, azimuth, ret>>

\* s.Collections(site) once more, the accessors answering in the opposite order
CollectionsAgain ==
    /\ pc = "sorted"
    /\ reordered' = SortCollections(Cols(Appended(Reordered(reg), site, sortTies)), sortTies)
    /\ pc' = "done"
    /\ UNCHANGED <<reg, site, sortTies, trace, collections, c, collection, polarity,
                   azimuth, ret>>

Next == Collections \/ CollectionsAgain

Spec == Init /\ [][Next]_vars

(***************************************************************************)
(* Properties of Set.Collections                                           *)
(***************************************************************************)
Range(s) == {s[i] : i \in DOMAIN s}
Count(s, x) == Cardinality({i \in DOMAIN s : s[i] = x})
SameRecords(s1, s2) == \A x \in Range(s1) \cup Range(s2) : Count(s1, x) = Count(s2, x)
ByStart(s) == \A i \in 1..(Len(s) - 1) : s[i].Span.Start <= s[i + 1].Span.Start
AtSite(r) == r.Station = site.Station /\ r.Location = site.Location

\* the spans of the records an append joined
JoinedSpans(e) ==
    IF e.path = "A"
    THEN << reg.InstalledRecorders[e.recorder].InstalledSensor.Span, reg.Streams[e.stream].Span >>
    ELSE << reg.Connections[e.connection].Span, reg.InstalledSensors[e.sensor].Span,
            reg.DeployedDataloggers[e.datalogger].Span, reg.Streams[e.stream].Span >>
LatestStart(spans) ==
    CHOOSE m \in {spans[i].Start : i \in DOMAIN spans} : \A i \in DOMAIN spans : spans[i].Start <= m
EarliestEnd(spans) ==
    CHOOSE m \in {spans[i].End : i \in DOMAIN spans} : \A i \in DOMAIN spans : spans[i].End >= m

\* C1: the Span of every Collection returned is non-empty and is exactly the
\* intersection (latest start, earliest end) of the spans of the records joined
\* to build it: recorder and stream on path A; connection, sensor, datalogger and
\* stream on path B.  Hence none is built from spans that share no instant.
C1_SpanIsIntersection ==
    pc # "ready" =>
        /\ SameRecords(collections, Cols(trace))
        /\ \A i \in DOMAIN trace :
              LET sp == trace[i].col.Span
                  joined == JoinedSpans(trace[i])
              IN  /\ sp.Start <= sp.End
                  /\ sp.Start = LatestStart(joined)
                  /\ sp.End = EarliestEnd(joined)

\* a path B Collection whose span is narrower than the three installations' common
\* span and narrower than the stream's
C1_Witness ==
    /\ pc # "ready"
    /\ \E i \in DOMAIN trace :
          /\ trace[i].path = "B"
          /\ trace[i].col.Span # reg.Streams[trace[i].stream].Span
          /\ trace[i].col.Span
                 # Extent(reg.Connections[trace[i].connection].Span,
                          << reg.InstalledSensors[trace[i].sensor].Span,
                             reg.DeployedDataloggers[trace[i].datalogger].Span >>).span
          /\ \E k \in DOMAIN collections : collections[k] = trace[i].col

\* C2: in the returned sequence no element is Less than the element before it.
C2_Sorted ==
    pc # "ready" =>
        \A i \in 1..(Len(collections) - 1) : ~Less(collections[i + 1], collections[i])

\* several Collections were appended out of order and returned in order
C2_Witness ==
    /\ pc # "ready"
    /\ Len(collections) >= 3
    /\ \E i \in 1..(Len(trace) - 1) : Less(trace[i + 1].col, trace[i].col)
    /\ \E i \in 1..(Len(collections) - 1) : Less(collections[i], collections[i + 1])

\* C3: Collections that are equal under Less are returned in the order in which
\* they were appended: the returned sequence is the stable arrangement.
C3_Stable ==
    pc # "ready" =>
        collections = SortSlice(Cols(trace),
                                [i, j \in DOMAIN trace |-> Less(trace[i].col, trace[j].col)],
                                "kept")

\* C4: the returned sequence does not depend on the order in which the accessors
\* return their records.
C4_OrderIndependent ==
    pc = "done" => reordered = collections

\* the combination passed the site, place/role, span and sensor make/model filters
PassedB(ni, ei, di, si, ci) ==
    /\ AtSite(reg.Connections[ni])
    /\ AtSite(reg.InstalledSensors[ei])
    /\ reg.DeployedDataloggers[di].Place = reg.Connections[ni].Place
    /\ reg.DeployedDataloggers[di].Role = reg.Connections[ni].Role
    /\ AtSite(reg.Streams[si])
    /\ Extent(reg.Connections[ni].Span,
              << reg.InstalledSensors[ei].Span, reg.DeployedDataloggers[di].Span,
                 reg.Streams[si].Span >>).ok
    /\ reg.Components[ci].Make = reg.InstalledSensors[ei].Make
    /\ reg.Components[ci].Model = reg.InstalledSensors[ei].Model

AppendsB(ni, ei, di, si, ci, chi) ==
    {i \in DOMAIN trace :
        /\ trace[i].path = "B"
        /\ trace[i].connection = ni /\ trace[i].sensor = ei /\ trace[i].datalogger = di
        /\ trace[i].stream = si /\ trace[i].component = ci /\ trace[i].channel = chi}

OffsetRule(ni, di, si, ci, chi) ==
    /\ reg.Channels[chi].Make = reg.DeployedDataloggers[di].Make
    /\ reg.Channels[chi].Model = reg.DeployedDataloggers[di].Model
    /\ FEq(reg.Channels[chi].SamplingRate, reg.Streams[si].SamplingRate)
    /\ reg.Components[ci].Number + reg.Connections[ni].Number >= reg.Channels[chi].Number

\* C5: on path B, for a combination that passed the earlier filters, a Channel
\* yields a Collection if and only if its Make/Model are the datalogger's, its
\* SamplingRate is the stream's and component.Number + connection.Number >=
\* channel.Number.
C5_OffsetRule ==
    pc # "ready" =>
        \A ni \in DOMAIN reg.Connections, ei \in DOMAIN reg.InstalledSensors,
           di \in DOMAIN reg.DeployedDataloggers, si \in DOMAIN reg.Streams,
           ci \in DOMAIN reg.Components :
            PassedB(ni, ei, di, si, ci) =>
                \A chi \in DOMAIN reg.Channels :
                    AppendsB(ni, ei, di, si, ci, chi) # {} <=> OffsetRule(ni, di, si, ci, chi)

\* connection 1, component 2: channel 3 yields a Collection, channel 4 does not
C5_Witness ==
    /\ pc # "ready"
    /\ \E i \in DOMAIN trace :
          /\ trace[i].path = "B"
          /\ reg.Connections[trace[i].connection].Number = 1
          /\ trace[i].col.Component.Number = 2
          /\ trace[i].col.Channel.Number = 3
          /\ \E chi \in DOMAIN reg.Channels :
                /\ reg.Channels[chi] = [trace[i].col.Channel EXCEPT !.Number = 4]
                /\ AppendsB(trace[i].connection, trace[i].sensor, trace[i].datalogger,
                            trace[i].stream, trace[i].component, chi) = {}

GainsOf(col) ==
    SelectSeq(reg.Gains, LAMBDA g :
        /\ g.Station = col.Stream.Station
        /\ g.Location = col.Stream.Location
        /\ g.Subsource = col.Component.Subsource
        /\ Overlaps(col.Span, g.Span))
CalibrationsOf(col, equipment, number) ==
    SelectSeq(reg.Calibrations, LAMBDA k :
        /\ k.Make = equipment.Make
        /\ k.Model = equipment.Model
        /\ k.Serial = equipment.Serial
        /\ k.Number = number
        /\ Overlaps(col.Span, k.Span))

\* C8: the Gains of every Collection are exactly the registry Gains of the stream's
\* station and location and the component's Subsource that overlap its Span, by
\* non-decreasing start; its SensorCalibrations (DataloggerCalibrations) are exactly
\* the registry Calibrations of its sensor (datalogger) Make/Model/Serial and its
\* component (channel) Number that overlap its Span, by non-decreasing start.
C8_Associations ==
    pc # "ready" =>
        \A k \in DOMAIN collections :
            LET col == collections[k]
            IN  /\ SameRecords(col.Gains, GainsOf(col))
                /\ ByStart(col.Gains)
                /\ SameRecords(col.SensorCalibrations,
                               CalibrationsOf(col, col.InstalledSensor, col.Component.Number))
                /\ ByStart(col.SensorCalibrations)
                /\ SameRecords(col.DataloggerCalibrations,
                               CalibrationsOf(col, col.DeployedDatalogger, col.Channel.Number))
                /\ ByStart(col.DataloggerCalibrations)

\* a recorder's Collection with two datalogger calibrations, listed against the
\* registry's order, and a third of the same key left out as outside its span
C8_Witness ==
    /\ pc # "ready"
    /\ Len(reg.Calibrations) = 3
    /\ \E k \in DOMAIN collections :
          /\ collections[k].DeployedDatalogger.Serial = "1"
          /\ collections[k].DataloggerCalibrations
                 = << reg.Calibrations[2], reg.Calibrations[1] >>
          /\ reg.Calibrations[1].Span.Start > reg.Calibrations[2].Span.Start
          /\ reg.Calibrations[3].Serial = "1"
          /\ reg.Calibrations[3].Model = collections[k].DeployedDatalogger.Model
          /\ ~Overlaps(collections[k].Span, reg.Calibrations[3].Span)

AppendsA(ri, si, ci, chi) ==
    {i \in DOMAIN trace :
        /\ trace[i].path = "A"
        /\ trace[i].recorder = ri /\ trace[i].stream = si
        /\ trace[i].component = ci /\ trace[i].channel = chi}

QualifiesA(ri, si, ci, chi) ==
    LET recorder == reg.InstalledRecorders[ri]
        stream == reg.Streams[si]
        component == reg.Components[ci]
        channel == reg.Channels[chi]
    IN  /\ AtSite(recorder.InstalledSensor)
        /\ AtSite(stream)
        /\ Overlaps(recorder.InstalledSensor.Span, stream.Span)
        /\ component.Make = recorder.InstalledSensor.Make
        /\ component.Model = recorder.InstalledSensor.Model
        /\ channel.Make = recorder.InstalledSensor.Make
        /\ channel.Model = recorder.DataloggerModel
        /\ FEq(channel.SamplingRate, stream.SamplingRate)

\* C9: path A appends exactly one Collection for each (recorder, stream, component,
\* channel) with recorder and stream at the site, overlapping spans, the component
\* of the recorder's sensor Make/Model, the channel of the sensor's Make, the
\* recorder's DataloggerModel and the stream's SamplingRate, and none for any other.
C9_PathA ==
    pc # "ready" =>
        /\ \A ri \in DOMAIN reg.InstalledRecorders, si \in DOMAIN reg.Streams,
              ci \in DOMAIN reg.Components, chi \in DOMAIN reg.Channels :
                Cardinality(AppendsA(ri, si, ci, chi))
                    = IF QualifiesA(ri, si, ci, chi) THEN 1 ELSE 0
        /\ \A i \in DOMAIN trace :
              trace[i].path = "A" =>
                  /\ trace[i].recorder \in DOMAIN reg.InstalledRecorders
                  /\ trace[i].stream \in DOMAIN reg.Streams
                  /\ trace[i].component \in DOMAIN reg.Components
                  /\ trace[i].channel \in DOMAIN reg.Channels
                  /\ trace[i].col.Stream = reg.Streams[trace[i].stream]
                  /\ trace[i].col.Component = reg.Components[trace[i].component]
                  /\ trace[i].col.Channel = reg.Channels[trace[i].channel]
                  /\ trace[i].col.InstalledSensor
                         = reg.InstalledRecorders[trace[i].recorder].InstalledSensor

\* a recorder at the site yields Collections with one stream and none with the
\* other stream at the site, which its span does not overlap
C9_Witness ==
    /\ pc # "ready"
    /\ \E i \in DOMAIN trace : trace[i].path = "A"
    /\ \E ri \in DOMAIN reg.InstalledRecorders, si \in DOMAIN reg.Streams :
          /\ AtSite(reg.InstalledRecorders[ri].InstalledSensor)
          /\ AtSite(reg.Streams[si])
          /\ ~Overlaps(reg.InstalledRecorders[ri].InstalledSensor.Span, reg.Streams[si].Span)
          /\ \A i \in DOMAIN trace : ~(trace[i].recorder = ri /\ trace[i].stream = si)

\* a recorder at the site whose span overlaps no stream there: no Collection at all
C9_NoOverlap ==
    /\ pc # "ready"
    /\ trace = <<>>
    /\ \E ri \in DOMAIN reg.InstalledRecorders : AtSite(reg.InstalledRecorders[ri].InstalledSensor)
    /\ \E si \in DOMAIN reg.Streams : AtSite(reg.Streams[si])

(***************************************************************************)
(* Collection.Less on its own                                              *)
(***************************************************************************)
\* Collections as far as Less reads them
Comparable ==
    {[InstalledSensor |-> [Station |-> st, Location |-> loc],
      Component |-> [Number |-> cn], Channel |-> [Number |-> chn],
      Span |-> [Start |-> start], Stream |-> [SamplingRate |-> rate]] :
     st \in {AB, ABC}, loc \in {L01, L02}, cn \in 1..MaxNumber, chn \in 1..MaxNumber,
     start \in {0, MaxTime}, rate \in {Fin(50), Fin(100), NaN}}

InitLess ==
    /\ c \in Comparable
    /\ collection \in Comparable
    /\ pc = "less"
    /\ ret = None
    /\ reg = None /\ site = Site0 /\ sortTies = "kept" /\ trace = <<>>
    /\ collections = <<>> /\ reordered = <<>>
    /\ polarity = NilPolarity /\ azimuth = Fin(0)

\* c.Less(collection), collection.Less(c) and c.Less(c)
LessCall ==
    /\ pc = "less"
    /\ ret' = [forth |-> Less(c, collection), back |-> Less(collection, c),
               self |-> Less(c, c)]
    /\ pc' = "done"
    /\ UNCHANGED <<reg, site, sortTies, trace, collections, reordered, c, collection,
                   polarity, azimuth>>

SpecLess == InitLess /\ [][LessCall]_vars

SameKeys(a, b) ==
    /\ a.InstalledSensor.Station = b.InstalledSensor.Station
    /\ a.InstalledSensor.Location = b.InstalledSensor.Location
    /\ a.Component.Number = b.Component.Number
    /\ a.Channel.Number = b.Channel.Number
    /\ a.Span.Start = b.Span.Start
    /\ a.Stream.SamplingRate = b.Stream.SamplingRate

StrictOrder ==
    /\ ~ret.self
    /\ ret.forth => ~ret.back
    /\ \A third \in Comparable : ret.forth /\ Less(collection, third) => Less(c, third)

\* C10 as stated: Less is irreflexive, asymmetric and transitive, and two
\* Collections are mutually not Less exactly when they agree on the six keys.
C10_AsStated ==
    pc = "done" =>
        /\ StrictOrder
        /\ (~ret.forth /\ ~ret.back) <=> SameKeys(c, collection)

\* C10, amended: Less is irreflexive, asymmetric and transitive, and two
\* Collections neither of whose Stream.SamplingRate is NaN are mutually not Less
\* exactly when they agree on the six keys.
C10_StrictOrder ==
    pc = "done" =>
        /\ StrictOrder
        /\ c.Stream.SamplingRate.cls # "nan" /\ collection.Stream.SamplingRate.cls # "nan"
               => ((~ret.forth /\ ~ret.back) <=> SameKeys(c, collection))

\* c is Less than collection by the sampling rate alone, and collection is Less
\* than a third Collection
C10_Witness ==
    /\ pc = "done"
    /\ ret.forth /\ ~ret.back
    /\ SameKeys([c EXCEPT !.Stream = collection.Stream], collection)
    /\ \E third \in Comparable : Less(collection, third) /\ Less(c, third)

(***************************************************************************)
(* Collection.Subsource on its own                                         *)
(***************************************************************************)
\* s in every mix of upper and lower case
Cased(s) ==
    {[i \in 1..Len(s) |-> IF i \in up THEN s[i] - 32 ELSE s[i]] : up \in SUBSET (1..Len(s))}

Axials ==
    Cased(StrTrue) \cup Cased(StrYes) \cup Cased(StrFalse) \cup Cased(<<110, 111>>)
    \cup {<<>>}

SubsourceBytes == {78, 110, 69, 101, 90, 122, 49, 50}

Subsources == UNION {[1..n -> SubsourceBytes] : n \in 0..MaxSubsourceLen}

InitSubsource ==
    /\ c \in {[Stream |-> [Axial |-> a], Component |-> [Subsource |-> s]] :
              a \in Axials, s \in Subsources}
    /\ pc = "subsource"
    /\ ret = None
    /\ reg = None /\ site = Site0 /\ sortTies = "kept" /\ trace = <<>>
    /\ collections = <<>> /\ reordered = <<>>
    /\ collection = None /\ polarity = NilPolarity /\ azimuth = Fin(0)

\* c.Subsource()
SubsourceCall ==
    /\ pc = "subsource"
    /\ ret' = Subsource(c)
    /\ pc' = "done"
    /\ UNCHANGED <<reg, site, sortTies, trace, collections, reordered, c, collection,
                   polarity, azimuth>>

SpecSubsource == InitSubsource /\ [][SubsourceCall]_vars

\* C6 as stated: with Axial "true", "N" gives "1", "E" gives "2" and every other
\* Subsource is returned unchanged; with Axial "false" it is always unchanged.
C6_AsStated ==
    pc = "done" =>
        /\ c.Stream.Axial = StrTrue =>
              ret = CASE c.Component.Subsource = StrN -> Str1
                      [] c.Component.Subsource = StrE -> Str2
                      [] OTHER -> c.Component.Subsource
        /\ c.Stream.Axial = StrFalse => ret = c.Component.Subsource

\* C6, amended: with Axial "true", "N" or "n" gives "1", "E" or "e" gives "2" and
\* every other Subsource is returned unchanged; with Axial "false" it is always
\* unchanged.
C6_Subsource ==
    pc = "done" =>
        /\ c.Stream.Axial = StrTrue =>
              ret = CASE c.Component.Subsource \in {StrN, <<110>>} -> Str1
                      [] c.Component.Subsource \in {StrE, <<101>>} -> Str2
                      [] OTHER -> c.Component.Subsource
        /\ c.Stream.Axial = StrFalse => ret = c.Component.Subsource

\* Axial "true" and Subsource "n": "1" is returned
C6_Witness ==
    /\ pc = "done"
    /\ c.Stream.Axial = StrTrue
    /\ c.Component.Subsource = <<110>>
    /\ ret = Str1

(***************************************************************************)
(* Collection.Azimuth on its own                                           *)
(***************************************************************************)
Polarities ==
    {NilPolarity} \cup {[nil |-> FALSE, Primary |-> p, Reversed |-> r] : p, r \in BOOLEAN}

Degrees == {Fin(n) : n \in (0 - MaxAzimuth)..MaxAzimuth} \cup {NaN, PosInf, NegInf}

InitAzimuth ==
    /\ c \in {[InstalledSensor |-> [Azimuth |-> a],
               Component |-> [Azimuth |-> b, Dip |-> d]] :
              a \in Degrees,
              b \in {Fin(0 - MaxAzimuth), Fin(0), Fin(90), Fin(MaxAzimuth)},
              d \in {Fin(0), Fin(45), NaN}}
    /\ polarity \in Polarities
    /\ azimuth = Fin(0)
    /\ pc = "azimuth"
    /\ ret = None
    /\ reg = None /\ site = Site0 /\ sortTies = "kept" /\ trace = <<>>
    /\ collections = <<>> /\ reordered = <<>>
    /\ collection = None

\* lines 102-111
AzimuthCall ==
    /\ pc = "azimuth"
    /\ IF FNe(c.Component.Dip, Fin(0))
       THEN ret' = Fin(0) /\ pc' = "done" /\ UNCHANGED azimuth
       ELSE azimuth' = CombinedAzimuth(c, polarity) /\ pc' = "loop" /\ UNCHANGED ret
    /\ UNCHANGED <<reg, site, sortTies, trace, collections, reordered, c, collection,
                   polarity>>

\* lines 114-116: one turn of the loop
AzimuthLoop ==
    /\ pc = "loop"
    /\ FLt(azimuth, Fin(0))
    /\ azimuth' = FAdd(azimuth, Fin(360))
    /\ UNCHANGED <<reg, site, sortTies, trace, collections, reordered, c, collection,
                   polarity, ret, pc>>

\* line 118
AzimuthReturn ==
    /\ pc = "loop"
    /\ ~FLt(azimuth, Fin(0))
    /\ ret' = FMod(azimuth, 360)
    /\ pc' = "done"
    /\ UNCHANGED <<reg, site, sortTies, trace, collections, reordered, c, collection,
                   polarity, azimuth>>

NextAzimuth == AzimuthCall \/ AzimuthLoop \/ AzimuthReturn

SpecAzimuth == InitAzimuth /\ [][NextAzimuth]_vars /\ WF_vars(NextAzimuth)

\* C7: whatever the Collection and the polarity, Azimuth returns r with 0 <= r < 360.
C7_AzimuthRange ==
    pc = "done" => ret.cls = "fin" /\ 0 <= ret.v /\ ret.v < 360

\* C7: whatever the Collection and the polarity, Azimuth terminates.
C7_AzimuthTerminates == <>(pc = "done")

\* the same for Collections whose azimuths are finite
C7_FiniteRange ==
    /\ c.InstalledSensor.Azimuth.cls = "fin"
    /\ c.Component.Azimuth.cls = "fin"
    /\ pc = "done"
    => ret.cls = "fin" /\ 0 <= ret.v /\ ret.v < 360
====
